---------------------------- MODULE Spec2Model ----------------------------
(***************************************************************************)
(* A model of the chat store (src/store/chat.ts): the zustand state, its   *)
(* thread and message actions, and submitMessage with its asynchronous     *)
(* continuations (fetch, dynamic import, one step per stream event, the    *)
(* catch branches and the finally block).                                  *)
(* With it, parseSSEStream (src/lib/stream-parser.ts), which turns the     *)
(* response body into events, and the background task of the proxy route   *)
(* (src/unnamed/part_003), which writes that body, with the arguments it   *)
(* hands to messages.create.  The variable early holds the store of an     *)
(* earlier submitMessage (src/unnamed/part_000), modelled the same way.    *)
(*                                                                         *)
(* Modelling conventions                                                   *)
(*  - A string that the code concatenates or trims is a sequence of        *)
(*    one-character strings, so that += is \o and trim() is computed.      *)
(*  - JavaScript objects that the code mutates in place are kept by        *)
(*    reference.  A content block lives in subs[s].objs and a message's    *)
(*    content is a sequence of references <<s, k>> to such objects.  The   *)
(*    assistantMessage object of a submission is marked orig = TRUE        *)
(*    wherever the very object (not a spread copy) sits in a list.         *)
(*  - Date.now() is taken to differ between two calls of createThread or   *)
(*    submitMessage, so identifiers are numbered by the call.              *)
(*  - Code between two awaits runs as one action.                          *)
(***************************************************************************)
EXTENDS Integers, Sequences, FiniteSets, TLC

VARIABLES
    threads,            \* ChatStore.threads: thread id -> [messages, abortController]
    nthreads,           \* number of createThread calls so far (names thread ids)
    selectedThreadId,   \* ChatStore.selectedThreadId (Null for null)
    messages,           \* ChatStore.messages
    messageInput,       \* ChatStore.messageInput
    subs,               \* one record per submitMessage call that passed the blank guard
    wire,               \* events the service will still send (scripted streams only)
    sse,                \* one call of parseSSEStream: the body left to read, the
                        \* buffer, what was yielded and logged so far
    proxy,              \* the background task of one POST of the proxy route: its
                        \* position and the body written so far
    early               \* the store of src/unnamed/part_000 and its submitMessage calls

vars == <<threads, nthreads, selectedThreadId, messages, messageInput, subs, wire, sse, proxy, early>>

-----------------------------------------------------------------------------
(* Bounds of the model *)

MaxSubs == 2
MaxChain == 3
MaxThreads == 2
MaxEvents == 2
MaxAsmEvents == 3
MaxDeltas == 2

-----------------------------------------------------------------------------
(* Values *)

Null == 0
NoId == <<"", 0>>
NoReason == "null"
ZeroUsage == [input_tokens |-> 0, output_tokens |-> 0]
SomeUsage == [input_tokens |-> 1, output_tokens |-> 2]
NoUsage == [input_tokens |-> -1, output_tokens |-> -1]
Hole == 0
NoIndex == -1

Inputs == { <<>>, <<" ">>, <<"q">> }
ApiError == <<"API error: ">>
NetError == <<"network error">>

RECURSIVE TrimStart(_)
TrimStart(str) ==
    IF str # <<>> /\ Head(str) = " " THEN TrimStart(Tail(str)) ELSE str

RECURSIVE TrimEnd(_)
TrimEnd(str) ==
    IF str # <<>> /\ str[Len(str)] = " "
    THEN TrimEnd(SubSeq(str, 1, Len(str) - 1))
    ELSE str

(* the input taken as it is *)
Untrimmed(str) == str

Trim(str) == TrimEnd(TrimStart(str))

-----------------------------------------------------------------------------
(* Content blocks and messages *)

Block(type) ==
    [type |-> type, text |-> <<>>, thinking |-> <<>>, citations |-> <<>>,
     received |-> <<>>]

TextBlock(text) == [Block("text") EXCEPT !.text = text]

Deref(ref) == subs[ref[1]].objs[ref[2]]

UserMessage(s) ==
    [id |-> <<"msg_user", s>>, role |-> "user", content |-> << <<s, 1>> >>,
     stop_reason |-> NoReason, usage |-> ZeroUsage, sub |-> s, orig |-> FALSE]

AssistantMessage(s) ==
    [id |-> <<"msg_asst", s>>, role |-> "assistant", content |-> <<>>,
     stop_reason |-> NoReason, usage |-> ZeroUsage, sub |-> s, orig |-> TRUE]

(* updatedAt names the write that set it last: NoId for createThread's
   new Date(), otherwise the id of the message whose addMessage or
   updateMessage made the write.  Two writes for one message are not told
   apart. *)
NewThread == [messages |-> <<>>, abortController |-> Null, updatedAt |-> NoId]

(* The store's {messages, threads} pair, as the set((state) => ...) callbacks
   read and return it. *)
Store(msgs, ths) == [messages |-> msgs, threads |-> ths]

(* threads.map(thread => thread.id === selectedThreadId
                          ? {...thread, messages, updatedAt: new Date()} : thread) *)
WithThreadMessages(ths, sel, msgs, at) ==
    [t \in DOMAIN ths |->
        IF t = sel THEN [ths[t] EXCEPT !.messages = msgs, !.updatedAt = at] ELSE ths[t]]

addMessage(st, sel, message) ==
    LET newMessages == Append(st.messages, message)
    IN  Store(newMessages, WithThreadMessages(st.threads, sel, newMessages, message.id))

(* {...msg, ...updates}: a field that updates does not carry keeps msg's value *)
Spread(msg, updates) ==
    [msg EXCEPT
        !.content = IF updates.hasContent THEN updates.content ELSE @,
        !.stop_reason = IF updates.hasStop THEN updates.stop_reason ELSE @,
        !.usage = IF updates.hasUsage THEN updates.usage ELSE @,
        !.orig = FALSE]

updateMessage(st, sel, messageId, updates) ==
    LET newMessages ==
            [i \in 1..Len(st.messages) |->
                IF st.messages[i].id = messageId
                THEN Spread(st.messages[i], updates)
                ELSE st.messages[i]]
    IN  Store(newMessages, WithThreadMessages(st.threads, sel, newMessages, messageId))

NoUpdates ==
    [hasContent |-> FALSE, content |-> <<>>, hasStop |-> FALSE,
     stop_reason |-> NoReason, hasUsage |-> FALSE, usage |-> ZeroUsage]

ContentUpdate(content) ==
    [NoUpdates EXCEPT !.hasContent = TRUE, !.content = content]

-----------------------------------------------------------------------------
(* parseSSEStream (src/lib/stream-parser.ts) and the frames the proxy writes.
   Text is a sequence of tokens: "data:" and " " make the 'data: ' prefix,
   "\n" is the line feed, "[DONE]" the sentinel, and JSON.stringify of the
   event named x is the three tokens "{", x, "}". *)

LF == "\n"
DataPrefix == <<"data:", " ">>
Sentinel == <<"[DONE]">>
EventNames == { "a", "b" }

Stringify(x) == <<"{", x, "}">>

(* JSON.parse: the value, or a SyntaxError *)
JsonParse(data) ==
    IF \E x \in EventNames : data = Stringify(x)
    THEN [ok |-> TRUE, value |-> data[2]]
    ELSE [ok |-> FALSE, value |-> ""]

(* no call of parseSSEStream in progress.  sent, proxy, written and cut are
   history: the whole body, whether createSSEResponse produced it and from
   which payloads, and whether a chunk has ended inside a 'data: ' prefix *)
NoStream ==
    [state |-> "idle", body |-> <<>>, buffer |-> <<>>, yielded |-> <<>>,
     logged |-> <<>>, sent |-> <<>>, proxy |-> FALSE, written |-> <<>>,
     cut |-> FALSE]

(* buffer.split('\n'): the pieces between line feeds, at least one *)
RECURSIVE Split(_)
Split(text) ==
    IF \A i \in 1..Len(text) : text[i] # LF
    THEN << text >>
    ELSE LET n == CHOOSE i \in 1..Len(text) :
                     text[i] = LF /\ \A j \in 1..(i - 1) : text[j] # LF
         IN  << SubSeq(text, 1, n - 1) >> \o Split(SubSeq(text, n + 1, Len(text)))

StartsWith(line, prefix) ==
    Len(line) >= Len(prefix) /\ SubSeq(line, 1, Len(prefix)) = prefix

(* a failed JSON.parse that is not reported *)
OnLineUnlogged(out, line) ==
    IF StartsWith(line, DataPrefix)
    THEN LET data == Trim(SubSeq(line, Len(DataPrefix) + 1, Len(line)))
             parsed == JsonParse(data)
         IN  IF data # Sentinel /\ parsed.ok
             THEN [out EXCEPT !.yielded = Append(@, parsed.value)]
             ELSE out
    ELSE out

(* the body of for (const line of lines): out is [yielded, logged] *)
OnLine(out, line) ==
    IF StartsWith(line, DataPrefix)
    THEN LET data == Trim(SubSeq(line, Len(DataPrefix) + 1, Len(line)))
             parsed == JsonParse(data)
         IN  IF data = Sentinel THEN out
             ELSE IF parsed.ok
             THEN [out EXCEPT !.yielded = Append(@, parsed.value)]
             ELSE [out EXCEPT !.logged = Append(@, data)]
    ELSE out

RECURSIVE OnLines(_, _)
OnLines(out, lines) ==
    IF lines = <<>> THEN out ELSE OnLines(OnLine(out, Head(lines)), Tail(lines))

(* buffer = '' instead of keeping the incomplete last line *)
PoppedAway(lines) == <<>>

(* lines.pop() || '' *)
Popped(lines) == lines[Len(lines)]

(* one reader.read() that returns a chunk, and the loop body for it *)
OnChunk(p, chunk) ==
    LET lines == Split(p.buffer \o chunk)
        out == OnLines([yielded |-> p.yielded, logged |-> p.logged],
                       SubSeq(lines, 1, Len(lines) - 1))
    IN  [p EXCEPT !.buffer = Popped(lines),
                  !.yielded = out.yielded,
                  !.logged = out.logged]

(* the end of the body treated as the end of a line *)
OnDoneFlushing(p) == [OnChunk(p, <<LF>>) EXCEPT !.state = "done"]

(* reader.read() returns done: break, then finally *)
OnDone(p) == [p EXCEPT !.state = "done"]

ReadChunk(n) ==
    /\ sse.state = "reading"
    /\ n \in 1..Len(sse.body)
    /\ sse' = [OnChunk(sse, SubSeq(sse.body, 1, n)) EXCEPT
                  !.body = SubSeq(sse.body, n + 1, Len(sse.body)),
                  !.cut = @ \/ (n < Len(sse.body) /\ sse.body[n] = "data:")]
    /\ UNCHANGED <<threads, nthreads, selectedThreadId, messages, messageInput, subs, wire, proxy, early>>

ReadDone ==
    /\ sse.state = "reading"
    /\ sse.body = <<>>
    /\ sse' = OnDone(sse)
    /\ UNCHANGED <<threads, nthreads, selectedThreadId, messages, messageInput, subs, wire, proxy, early>>

(* createSSEResponse: write(data) and close() *)
SSEWrite(data) == DataPrefix \o data \o <<LF, LF>>
SSEClose == DataPrefix \o Sentinel \o <<LF, LF>>

(* thinking: undefined in the arguments of messages.create *)
NoThinking == [type |-> "undefined", budget_tokens |-> -1]

DefaultMaxTokens == 2048

(* no POST in progress.  sent and threw are history: the chunks written and
   whether the upstream call or iteration threw.  max_tokens and betaFeatures
   are the fields of the request body with their defaults, thinking is the
   argument of that name handed to messages.create. *)
NoTask ==
    [pc |-> "idle", out |-> <<>>, sent |-> <<>>, inCatch |-> FALSE,
     threw |-> FALSE, cancelled |-> FALSE,
     max_tokens |-> DefaultMaxTokens, betaFeatures |-> {}, thinking |-> NoThinking]

-----------------------------------------------------------------------------
(* The store of src/unnamed/part_000, an earlier submitMessage that keeps the
   reply under construction in streamingMessage and appends it to the history
   at message_stop.  The tool-call, search-result, attachment and artifact
   fields are left out: no event of the streams considered touches them. *)

(* streamingMessage: null, or the fields a reader can see.  {} is the record
   with neither an id nor a content. *)
Streaming(id, content) == [isNull |-> FALSE, id |-> id, content |-> content]
EmptyObject == Streaming(NoId, << <<0, 0>> >>)
NoStreaming == [EmptyObject EXCEPT !.isNull = TRUE]

EarlyStore ==
    [threads |-> <<>>, nthreads |-> 0, selectedThreadId |-> Null, messages |-> <<>>,
     messageInput |-> <<>>, streamingMessage |-> NoStreaming, isStreaming |-> FALSE,
     isThinking |-> FALSE, currentThinkingContent |-> <<>>, calls |-> <<>>]

-----------------------------------------------------------------------------
(* Thread and input actions *)

(* History only: stayed records that the submitting thread has been the
   selected one ever since the submission was made. *)
Observe(sbs, sel) ==
    [i \in 1..Len(sbs) |->
        [sbs[i] EXCEPT !.stayed = @ /\ (sbs[i].pc = "done" \/ sbs[i].threadId = sel)]]

Init ==
    /\ threads = << >>
    /\ nthreads = 0
    /\ selectedThreadId = Null
    /\ messages = <<>>
    /\ messageInput = <<>>
    /\ subs = <<>>
    /\ wire = <<>>
    /\ sse = NoStream
    /\ proxy = NoTask
    /\ early = EarlyStore

setMessageInput(input) ==
    /\ messageInput' = input
    /\ UNCHANGED <<threads, nthreads, selectedThreadId, messages, subs, wire, sse, proxy, early>>

createThread ==
    /\ nthreads < MaxThreads
    /\ nthreads' = nthreads + 1
    /\ threads' = threads @@ ((nthreads + 1) :> NewThread)
    /\ selectedThreadId' = nthreads + 1
    /\ messages' = <<>>
    /\ subs' = Observe(subs, nthreads + 1)
    /\ UNCHANGED <<messageInput, wire, sse, proxy, early>>

selectThread(threadId) ==
    /\ selectedThreadId' = threadId
    /\ messages' = IF threadId \in DOMAIN threads THEN threads[threadId].messages ELSE <<>>
    /\ subs' = Observe(subs, threadId)
    /\ UNCHANGED <<threads, nthreads, messageInput, wire, sse, proxy, early>>

(* AbortController.abort() on the controller that submission c created *)
Abort(sbs, c) ==
    IF c = Null THEN sbs ELSE [sbs EXCEPT ![c].aborted = TRUE]

(* a deletion that leaves the visible list as it was *)
deleteThreadKeepingMessages(threadId) ==
    /\ threadId \in DOMAIN threads
    /\ subs' = Observe(Abort(subs, threads[threadId].abortController),
                       IF selectedThreadId = threadId THEN Null ELSE selectedThreadId)
    /\ threads' = [t \in DOMAIN threads \ {threadId} |-> threads[t]]
    /\ selectedThreadId' = IF selectedThreadId = threadId THEN Null ELSE selectedThreadId
    /\ UNCHANGED <<messages, nthreads, messageInput, wire, sse, proxy, early>>

deleteThread(threadId) ==
    /\ threadId \in DOMAIN threads
    /\ subs' = Observe(Abort(subs, threads[threadId].abortController),
                       IF selectedThreadId = threadId THEN Null ELSE selectedThreadId)
    /\ threads' = [t \in DOMAIN threads \ {threadId} |-> threads[t]]
    /\ selectedThreadId' = IF selectedThreadId = threadId THEN Null ELSE selectedThreadId
    /\ messages' = IF selectedThreadId = threadId THEN <<>> ELSE messages
    /\ UNCHANGED <<nthreads, messageInput, wire, sse, proxy, early>>

-----------------------------------------------------------------------------
(* Stream events, as JSON.parse hands them to submitMessage *)

Event(type) ==
    [type |-> type, index |-> NoIndex, block |-> "", delta |-> "", payload |-> <<>>,
     id |-> NoId, stop_reason |-> NoReason, usage |-> NoUsage]

MessageStart(id) == [Event("message_start") EXCEPT !.id = id]
BlockStart(index, type) ==
    [Event("content_block_start") EXCEPT !.index = index, !.block = type]
(* a content_block_start whose content_block carries data of its own: the
   input of a tool use, the results of a web search *)
BlockStartWith(index, type, payload) ==
    [BlockStart(index, type) EXCEPT !.payload = payload]
BlockDelta(index, type, payload) ==
    [Event("content_block_delta") EXCEPT !.index = index, !.delta = type, !.payload = payload]
BlockStop(index) == [Event("content_block_stop") EXCEPT !.index = index]
MessageDelta(reason, usage) ==
    [Event("message_delta") EXCEPT !.stop_reason = reason, !.usage = usage]
MessageStop == Event("message_stop")
ErrorEvent == Event("error")

-----------------------------------------------------------------------------
(* The stream-local contentBlocks array: slot i of the JavaScript array is
   element i + 1 of the sequence, a hole is Hole, a block is its number in objs *)

(* event.index || otherwise: undefined and 0 are both falsy *)
OrElse(index, otherwise) ==
    IF index = NoIndex \/ index = 0 THEN otherwise ELSE index

(* contentBlocks[i] = k, which lengthens the array with holes when i >= length *)
SetAt(arr, i, k) ==
    [j \in 1..(IF i + 1 > Len(arr) THEN i + 1 ELSE Len(arr)) |->
        IF j = i + 1 THEN k ELSE IF j <= Len(arr) THEN arr[j] ELSE Hole]

(* contentBlocks[i], Hole standing for undefined *)
At(arr, i) == IF i + 1 \in 1..Len(arr) THEN arr[i + 1] ELSE Hole

(* contentBlocks.filter(b => b !== undefined), as references to the objects *)
Filtered(s, arr) ==
    LET present == SelectSeq(arr, LAMBDA k : k # Hole)
    IN  [j \in 1..Len(present) |-> <<s, present[j]>>]

StartedTypes == {"tool_use", "server_tool_use", "web_search_tool_result", "thinking", "text"}

-----------------------------------------------------------------------------
(* submitMessage: from the call to the first await *)

(* [...messages, userMessage].map(msg => ({ role, content })), messages being
   the list read when the call began.  sub and stop_reason are history: whose
   message the element is and the stop_reason it had when the body was built *)
ApiMessages(msgs, userMessage) ==
    [i \in 1..(Len(msgs) + 1) |->
        LET msg == IF i <= Len(msgs) THEN msgs[i] ELSE userMessage
        IN  [role |-> msg.role, content |-> msg.content,
             sub |-> msg.sub, stop_reason |-> msg.stop_reason]]

NewSub(s, threadId, input) ==
    [pc |-> "fetch", threadId |-> threadId, asstId |-> <<"msg_asst", s>>,
     aborted |-> FALSE, contentBlocks |-> <<>>, objs |-> <<TextBlock(input)>>,
     trace |-> <<>>, outcome |-> "none", requests |-> 1, stayed |-> TRUE,
     body |-> ApiMessages(messages, UserMessage(s)),
     replaced |-> {i \in 1..(s - 1) : subs[i].threadId = threadId /\ subs[i].pc # "done"}]

WithController(ths, threadId, c) ==
    [t \in DOMAIN ths |->
        IF t = threadId THEN [ths[t] EXCEPT !.abortController = c] ELSE ths[t]]

submitMessage ==
    /\ selectedThreadId # Null \/ nthreads < MaxThreads
    /\ IF Trim(messageInput) = <<>>
       THEN UNCHANGED vars
       ELSE LET s == Len(subs) + 1
                create == selectedThreadId = Null
                threadId == IF create THEN nthreads + 1 ELSE selectedThreadId
                created == IF create
                           THEN Store(<<>>, threads @@ (threadId :> NewThread))
                           ELSE Store(messages, threads)
                previous == IF threadId \in DOMAIN created.threads
                            THEN created.threads[threadId].abortController
                            ELSE Null
                installed == Store(created.messages,
                                   WithController(created.threads, threadId, s))
                withUser == addMessage(installed, threadId, UserMessage(s))
                withBoth == addMessage(withUser, threadId, AssistantMessage(s))
            IN  /\ nthreads' = IF create THEN nthreads + 1 ELSE nthreads
                /\ selectedThreadId' = threadId
                /\ messages' = withBoth.messages
                /\ threads' = withBoth.threads
                /\ messageInput' = <<>>
                /\ subs' = Append(Observe(Abort(subs, previous), threadId),
                                  NewSub(s, threadId, messageInput))
                /\ UNCHANGED <<wire, sse, proxy, early>>

-----------------------------------------------------------------------------
(* submitMessage: the handlers of the stream loop *)

(* message_start: the store is searched for oldId, then the local
   assistantMessage object itself is given the new id *)
Renamed(msgs, oldId, newId) ==
    [i \in 1..Len(msgs) |->
        IF msgs[i].id = oldId
        THEN [msgs[i] EXCEPT !.id = newId, !.orig = FALSE]
        ELSE msgs[i]]

Mutated(msgs, s, newId) ==
    [i \in 1..Len(msgs) |->
        IF msgs[i].orig /\ msgs[i].sub = s
        THEN [msgs[i] EXCEPT !.id = newId]
        ELSE msgs[i]]

OnMessageStart(st, sel, s, sb, e) ==
    IF e.id = NoId
    THEN [st |-> st, sb |-> sb]
    ELSE LET msgs1 == Renamed(st.messages, sb.asstId, e.id)
             ths1 == [t \in DOMAIN st.threads |->
                        IF t = sel
                        THEN [st.threads[t] EXCEPT
                                !.messages = Renamed(@, sb.asstId, e.id)]
                        ELSE st.threads[t]]
         IN  [st |-> Store(Mutated(msgs1, s, e.id),
                           [t \in DOMAIN ths1 |->
                               [ths1[t] EXCEPT !.messages = Mutated(@, s, e.id)]]),
              sb |-> [sb EXCEPT !.asstId = e.id]]

(* a content_block_start that keeps the type of the block only *)
OnContentBlockStartBare(st, sel, s, sb, e) ==
    LET blockIndex == OrElse(e.index, Len(sb.contentBlocks))
        sb1 == IF e.block \in StartedTypes
               THEN [sb EXCEPT !.objs = Append(@, Block(e.block)),
                               !.contentBlocks = SetAt(@, blockIndex, Len(sb.objs) + 1)]
               ELSE sb
    IN  [st |-> updateMessage(st, sel, sb.asstId,
                              ContentUpdate(Filtered(s, sb1.contentBlocks))),
         sb |-> sb1]

OnContentBlockStart(st, sel, s, sb, e) ==
    LET blockIndex == OrElse(e.index, Len(sb.contentBlocks))
        k == Len(sb.objs) + 1
        sb1 == IF e.block \in StartedTypes
               THEN [sb EXCEPT !.objs = Append(@, [Block(e.block) EXCEPT !.received = e.payload]),
                               !.contentBlocks = SetAt(@, blockIndex, k)]
               ELSE sb
    IN  [st |-> updateMessage(st, sel, sb.asstId,
                              ContentUpdate(Filtered(s, sb1.contentBlocks))),
         sb |-> sb1]

(* block.text = payload instead of block.text += payload *)
OverwriteText(block, payload) == [block EXCEPT !.text = payload]

AppendText(block, payload) == [block EXCEPT !.text = @ \o payload]
AppendThinking(block, payload) == [block EXCEPT !.thinking = @ \o payload]
PushCitation(block, payload) == [block EXCEPT !.citations = Append(@, payload)]

(* a content_block_delta applied whatever the type of the block *)
OnContentBlockDeltaUntyped(st, sel, s, sb, e) ==
    LET deltaIndex == OrElse(e.index, 0)
        k == At(sb.contentBlocks, deltaIndex)
        sb1 == IF k = Hole THEN sb
               ELSE IF e.delta = "text_delta"
               THEN [sb EXCEPT !.objs[k] = AppendText(@, e.payload)]
               ELSE IF e.delta = "citations_delta" /\ e.payload # <<>>
               THEN [sb EXCEPT !.objs[k] = PushCitation(@, e.payload)]
               ELSE IF e.delta = "thinking_delta"
               THEN [sb EXCEPT !.objs[k] = AppendThinking(@, e.payload)]
               ELSE sb
    IN  [st |-> updateMessage(st, sel, sb.asstId,
                              ContentUpdate(Filtered(s, sb1.contentBlocks))),
         sb |-> sb1]

OnContentBlockDelta(st, sel, s, sb, e) ==
    LET deltaIndex == OrElse(e.index, 0)
        k == At(sb.contentBlocks, deltaIndex)
        type == IF k = Hole THEN "" ELSE sb.objs[k].type
        sb1 == IF e.delta = "text_delta" /\ type = "text"
               THEN [sb EXCEPT !.objs[k] = AppendText(@, e.payload)]
               ELSE IF e.delta = "citations_delta" /\ type = "text" /\ e.payload # <<>>
               THEN [sb EXCEPT !.objs[k] = PushCitation(@, e.payload)]
               ELSE IF e.delta = "thinking_delta" /\ type = "thinking"
               THEN [sb EXCEPT !.objs[k] = AppendThinking(@, e.payload)]
               ELSE sb
    IN  [st |-> updateMessage(st, sel, sb.asstId,
                              ContentUpdate(Filtered(s, sb1.contentBlocks))),
         sb |-> sb1]

OnMessageDelta(st, sel, s, sb, e) ==
    IF e.stop_reason # NoReason
    THEN [st |-> updateMessage(st, sel, sb.asstId,
                    [NoUpdates EXCEPT
                        !.hasStop = TRUE, !.stop_reason = e.stop_reason,
                        !.hasUsage = TRUE,
                        !.usage = IF e.usage = NoUsage THEN ZeroUsage ELSE e.usage]),
          sb |-> sb]
    ELSE [st |-> st, sb |-> sb]

(* the event types of a message stream *)
KnownTypes ==
    { "message_start", "content_block_start", "content_block_delta",
      "content_block_stop", "message_delta", "message_stop" }

(* a dispatch whose default case fails the message *)
DispatchStrict(st, sel, s, sb, e) ==
    IF e.type = "message_start" THEN OnMessageStart(st, sel, s, sb, e)
    ELSE IF e.type = "content_block_start" THEN OnContentBlockStart(st, sel, s, sb, e)
    ELSE IF e.type = "content_block_delta" THEN OnContentBlockDelta(st, sel, s, sb, e)
    ELSE IF e.type = "message_delta" THEN OnMessageDelta(st, sel, s, sb, e)
    ELSE IF e.type \in KnownTypes THEN [st |-> st, sb |-> sb]
    ELSE [st |-> updateMessage(st, sel, sb.asstId,
                    [NoUpdates EXCEPT !.hasStop = TRUE, !.stop_reason = "error"]),
          sb |-> sb]

Dispatch(st, sel, s, sb, e) ==
    IF e.type = "message_start" THEN OnMessageStart(st, sel, s, sb, e)
    ELSE IF e.type = "content_block_start" THEN OnContentBlockStart(st, sel, s, sb, e)
    ELSE IF e.type = "content_block_delta" THEN OnContentBlockDelta(st, sel, s, sb, e)
    ELSE IF e.type = "message_delta" THEN OnMessageDelta(st, sel, s, sb, e)
    ELSE [st |-> st, sb |-> sb]

(* catch, AbortError: state.messages.filter(m => m.id !== assistantMessage.id) *)
CatchAbort(st, sb) ==
    Store(SelectSeq(st.messages, LAMBDA m : m.id # sb.asstId), st.threads)

(* the error branch setting stop_reason only, leaving the partial content *)
ErrorUpdatesKeepingContent(ref) ==
    [NoUpdates EXCEPT !.hasStop = TRUE, !.stop_reason = "error"]

ErrorUpdates(ref) ==
    [NoUpdates EXCEPT !.hasContent = TRUE, !.content = <<ref>>,
                      !.hasStop = TRUE, !.stop_reason = "error"]

(* catch, any other error *)
CatchError(st, sel, s, sb) ==
    updateMessage(st, sel, sb.asstId, ErrorUpdates(<<s, Len(sb.objs) + 1>>))

(* finally: the abortController of the thread the submission was made on *)
Finally(st, threadId) ==
    Store(st.messages, WithController(st.threads, threadId, Null))

Settle(s, sb, outcome, st) ==
    /\ messages' = st.messages
    /\ threads' = st.threads
    /\ subs' = [subs EXCEPT ![s] = [sb EXCEPT !.pc = "done", !.outcome = outcome]]
    /\ UNCHANGED <<nthreads, selectedThreadId, messageInput>>

Running(s) == s \in 1..Len(subs) /\ subs[s].pc # "done"


Reading(s) == Running(s) /\ subs[s].pc = "stream" /\ ~subs[s].aborted

(* fetch resolves with response.ok *)
FetchOk(s) ==
    /\ Running(s) /\ subs[s].pc = "fetch" /\ ~subs[s].aborted
    /\ subs' = [subs EXCEPT ![s].pc = "import"]
    /\ UNCHANGED <<threads, nthreads, selectedThreadId, messages, messageInput, wire, sse, proxy, early>>

(* the error branch followed by finally; diag is error.message *)
Fail(s, diag) ==
    LET sb == subs[s]
        caught == CatchError(Store(messages, threads), selectedThreadId, s, sb)
    IN  Settle(s, [sb EXCEPT !.objs = Append(@, TextBlock(<<"Error: ">> \o diag))],
               "error", Finally(caught, sb.threadId))

(* fetch rejects for a reason other than the abort, or response.ok is false *)
FetchFail(s, diag) ==
    /\ Running(s) /\ subs[s].pc = "fetch" /\ ~subs[s].aborted
    /\ Fail(s, diag)
    /\ UNCHANGED <<wire, sse, proxy, early>>

(* await import('@/lib/stream-parser') *)
ImportDone(s) ==
    /\ Running(s) /\ subs[s].pc = "import"
    /\ subs' = [subs EXCEPT ![s].pc = "stream"]
    /\ UNCHANGED <<threads, nthreads, selectedThreadId, messages, messageInput, wire, sse, proxy, early>>

(* one iteration of for await (const event of parseSSEStream(response)) *)
Process(s, e) ==
    LET got == Dispatch(Store(messages, threads), selectedThreadId, s, subs[s], e)
    IN  /\ messages' = got.st.messages
        /\ threads' = got.st.threads
        /\ subs' = [subs EXCEPT ![s] = [got.sb EXCEPT !.trace = Append(@, e)]]
        /\ UNCHANGED <<nthreads, selectedThreadId, messageInput>>

StreamEvent(s, e) ==
    /\ Reading(s)
    /\ Process(s, e)
    /\ UNCHANGED <<wire, sse, proxy, early>>

(* the generator is done: the loop ends and finally runs *)
StreamDone(s) ==
    /\ Reading(s)
    /\ Settle(s, subs[s], "completed", Finally(Store(messages, threads), subs[s].threadId))
    /\ UNCHANGED <<wire, sse, proxy, early>>

(* reader.read() rejects for a reason other than the abort *)
StreamFail(s) ==
    /\ Reading(s)
    /\ Fail(s, NetError)
    /\ UNCHANGED <<wire, sse, proxy, early>>

(* fetch or reader.read() rejects with AbortError: the abort branch, then finally *)
AbortError(s) ==
    /\ Running(s) /\ subs[s].pc \in {"fetch", "stream"} /\ subs[s].aborted
    /\ Settle(s, subs[s], "aborted",
              Finally(CatchAbort(Store(messages, threads), subs[s]), subs[s].threadId))
    /\ UNCHANGED <<wire, sse, proxy, early>>

-----------------------------------------------------------------------------
(* submitMessage of src/unnamed/part_000.  A call is a record of early.calls:
   its position, the locals of its stream loop, the objects it created (objs;
   a content block is referred to as <<call, number>>), and as history the
   events it processed and how it ended. *)

EarlyThread == [messages |-> <<>>, updatedAt |-> NoId]

(* addMessage of part_000 *)
EarlyAddMessage(st, message) ==
    LET newMessages == Append(st.messages, message)
    IN  [st EXCEPT
            !.messages = newMessages,
            !.threads = [t \in DOMAIN st.threads |->
                            IF t = st.selectedThreadId
                            THEN [messages |-> newMessages, updatedAt |-> message.id]
                            ELSE st.threads[t]]]

finalizeStreamingMessage(st, message) ==
    [EarlyAddMessage(st, message) EXCEPT
        !.streamingMessage = NoStreaming, !.isStreaming = FALSE]

updateThinkingContent(st, content) ==
    [st EXCEPT !.currentThinkingContent = content, !.isThinking = TRUE]

clearThinking(st) == [st EXCEPT !.currentThinkingContent = <<>>, !.isThinking = FALSE]

EarlyUserMessage(c) ==
    [id |-> <<"msg_user", c>>, role |-> "user", content |-> << <<c, 1>> >>,
     stop_reason |-> NoReason, usage |-> ZeroUsage, call |-> c]

EarlyCall(input) ==
    [pc |-> "fetch", messageId |-> NoId, thinkingContent |-> <<>>, contentBlocks |-> <<>>,
     objs |-> << TextBlock(input) >>, currentThinkingBlock |-> Null,
     currentTextBlock |-> Null, currentBlockIndex |-> NoIndex,
     trace |-> <<>>, stops |-> 0, outcome |-> ""]

(* the steps of part_000 leave everything else alone *)
StoreIdle0 ==
    UNCHANGED <<threads, nthreads, selectedThreadId, messages, messageInput, subs, wire, sse, proxy>>

(* createThread of part_000 (177-192), as a function of the store *)
EarlyWithNewThread(st) ==
    [st EXCEPT
        !.nthreads = @ + 1,
        !.threads = @ @@ ((st.nthreads + 1) :> EarlyThread),
        !.selectedThreadId = st.nthreads + 1,
        !.messages = <<>>]

EarlyCreateThread ==
    /\ early.nthreads < MaxThreads
    /\ early' = EarlyWithNewThread(early)
    /\ StoreIdle0

EarlySelectThread(threadId) ==
    /\ early' = [early EXCEPT
                    !.selectedThreadId = threadId,
                    !.messages = IF threadId \in DOMAIN early.threads
                                 THEN early.threads[threadId].messages ELSE <<>>]
    /\ StoreIdle0

(* deleteThread of part_000 (202-208): no request is cancelled *)
EarlyDeleteThread(threadId) ==
    /\ threadId \in DOMAIN early.threads
    /\ early' = [early EXCEPT
                    !.threads = [t \in DOMAIN early.threads \ {threadId} |-> early.threads[t]],
                    !.selectedThreadId = IF @ = threadId THEN Null ELSE @,
                    !.messages = IF early.selectedThreadId = threadId THEN <<>> ELSE @]
    /\ StoreIdle0

EarlySetMessageInput(input) ==
    /\ early' = [early EXCEPT !.messageInput = input]
    /\ StoreIdle0

(* from the call to the first await: the blank guard, the thread, the user
   message, the streaming state, the request *)
EarlySubmitMessage ==
    /\ early.selectedThreadId # Null \/ early.nthreads < MaxThreads
    /\ IF Trim(early.messageInput) = <<>>
       THEN early' = early
       ELSE LET c == Len(early.calls) + 1
                created == early.selectedThreadId = Null
                st1 == IF created
                       THEN EarlyWithNewThread(early)
                       ELSE early
                st2 == EarlyAddMessage(st1, EarlyUserMessage(c))
            IN  early' = [st2 EXCEPT
                             !.messageInput = <<>>,
                             !.isStreaming = TRUE,
                             !.streamingMessage = EmptyObject,
                             !.calls = Append(@, EarlyCall(early.messageInput))]
    /\ StoreIdle0

(* content_block_start (part_000 398-434) *)
EarlyBlockStart(st, c, e) ==
    LET cl == st.calls[c]
        index == OrElse(e.index, Len(cl.contentBlocks))
        k == Len(cl.objs) + 1
    IN  IF e.block \in {"tool_use", "server_tool_use", "web_search_tool_result"}
        THEN [st EXCEPT !.calls[c] =
                 [cl EXCEPT
                     !.objs = Append(@, Block(e.block)),
                     !.currentBlockIndex = index,
                     !.contentBlocks = SetAt(@, index, k)]]
        ELSE IF e.block = "thinking"
        THEN [st EXCEPT
                 !.isThinking = TRUE,
                 !.calls[c] =
                     [cl EXCEPT
                         !.objs = Append(@, Block("thinking")),
                         !.currentBlockIndex = index,
                         !.currentThinkingBlock = k,
                         !.contentBlocks = SetAt(@, index, k)]]
        ELSE IF e.block = "text"
        THEN [st EXCEPT !.calls[c] =
                 [cl EXCEPT
                     !.objs = Append(@, Block("text")),
                     !.currentBlockIndex = index,
                     !.currentTextBlock = k,
                     !.contentBlocks = SetAt(@, index, k)]]
        ELSE [st EXCEPT !.calls[c].currentBlockIndex = index]

(* content_block_stop (435-450): event.content_block is e.block, "" when the
   event carries none *)
EarlyBlockStop(st, c, e) ==
    LET cl == st.calls[c]
        k == cl.currentThinkingBlock
    IN  IF e.block = "thinking"
        THEN [st EXCEPT
                 !.isThinking = FALSE,
                 !.calls[c] =
                     IF k = Null THEN cl
                     ELSE [cl EXCEPT
                              !.objs[k].thinking = cl.thinkingContent,
                              !.contentBlocks = Append(@, k)]]
        ELSE st

(* content_block_delta (451-492) *)
EarlyBlockDelta(st, c, e) ==
    LET cl == st.calls[c]
        deltaIndex == OrElse(e.index, cl.currentBlockIndex)
    IN  IF e.delta = "text_delta"
        THEN LET k == cl.currentTextBlock
                 cl1 == IF k # Null /\ deltaIndex = cl.currentBlockIndex
                        THEN [cl EXCEPT
                                 !.objs[k] = AppendText(@, e.payload),
                                 !.contentBlocks = SetAt(@, deltaIndex, k)]
                        ELSE cl
             IN  [st EXCEPT
                     !.calls[c] = cl1,
                     !.streamingMessage =
                         Streaming(st.streamingMessage.id, Filtered(c, cl1.contentBlocks))]
        ELSE IF e.delta = "thinking_delta"
        THEN LET k == cl.currentThinkingBlock
                 thinkingContent == cl.thinkingContent \o e.payload
                 cl1 == [cl EXCEPT !.thinkingContent = thinkingContent]
                 cl2 == IF k # Null
                        THEN [cl1 EXCEPT
                                 !.objs[k].thinking = thinkingContent,
                                 !.contentBlocks = SetAt(@, cl.currentBlockIndex, k)]
                        ELSE cl1
             IN  updateThinkingContent([st EXCEPT !.calls[c] = cl2], thinkingContent)
        ELSE st

(* message_stop (493-511) *)
EarlyMessageStop(st, c, e) ==
    LET cl == st.calls[c]
        finalMessage ==
            [id |-> cl.messageId, role |-> "assistant",
             content |-> Filtered(c, cl.contentBlocks), stop_reason |-> "end_turn",
             usage |-> IF e.usage = NoUsage THEN ZeroUsage ELSE e.usage, call |-> c]
    IN  finalizeStreamingMessage([st EXCEPT !.calls[c].stops = @ + 1], finalMessage)

(* one turn of the for-await loop (395-512) *)
EarlyDispatch(st, c, e) ==
    IF e.type = "message_start"
    THEN [st EXCEPT !.calls[c].messageId = e.id,
                    !.streamingMessage = Streaming(e.id, <<>>)]
    ELSE IF e.type = "content_block_start" THEN EarlyBlockStart(st, c, e)
    ELSE IF e.type = "content_block_stop" THEN EarlyBlockStop(st, c, e)
    ELSE IF e.type = "content_block_delta" THEN EarlyBlockDelta(st, c, e)
    ELSE IF e.type = "message_stop" THEN EarlyMessageStop(st, c, e)
    ELSE st

(* the catch block (513-517) *)
EarlyCatch(st, c) ==
    [st EXCEPT !.isStreaming = FALSE, !.streamingMessage = NoStreaming,
               !.calls[c].pc = "done", !.calls[c].outcome = "failed"]

EarlyAt(c, pc) == c \in 1..Len(early.calls) /\ early.calls[c].pc = pc

(* fetch resolves with an ok response: on to the dynamic import *)
EarlyFetchOk(c) ==
    /\ EarlyAt(c, "fetch")
    /\ early' = [early EXCEPT !.calls[c].pc = "import"]
    /\ StoreIdle0

(* fetch rejects, or the response is not ok and the call throws *)
EarlyFetchFail(c) ==
    /\ EarlyAt(c, "fetch")
    /\ early' = EarlyCatch(early, c)
    /\ StoreIdle0

(* the import resolves: the locals, clearSearchResults, clearThinking, and
   the first read *)
EarlyImportDone(c) ==
    /\ EarlyAt(c, "import")
    /\ early' = clearThinking([early EXCEPT !.calls[c].pc = "stream"])
    /\ StoreIdle0

EarlyStreamEvent(c, e) ==
    /\ EarlyAt(c, "stream")
    /\ early' = EarlyDispatch([early EXCEPT !.calls[c].trace = Append(@, e)], c, e)
    /\ StoreIdle0

(* the stream ends: the loop is left and the call returns *)
EarlyStreamDone(c) ==
    /\ EarlyAt(c, "stream")
    /\ early' = [early EXCEPT !.calls[c].pc = "done", !.calls[c].outcome = "ended"]
    /\ StoreIdle0

(* a read rejects: the catch block *)
EarlyStreamFail(c) ==
    /\ EarlyAt(c, "stream")
    /\ early' = EarlyCatch(early, c)
    /\ StoreIdle0

-----------------------------------------------------------------------------
(* Spec: the store under every interleaving of user actions and of the
   continuations of up to MaxSubs submissions *)

ServiceId(s) == <<"msg_srv", s>>

ConcEvents(s) ==
    { MessageStart(ServiceId(s)), BlockStart(0, "text"),
      BlockDelta(0, "text_delta", <<"a">>), MessageDelta("end_turn", SomeUsage) }

ConcInputs == { <<"q">> }

(* the number of events all submissions together have processed *)
RECURSIVE Received(_)
Received(n) == IF n = 0 THEN 0 ELSE Len(subs[n].trace) + Received(n - 1)

Next ==
    \/ \E input \in ConcInputs : setMessageInput(input)
    \/ createThread
    \/ \E t \in DOMAIN threads \cup {Null} : selectThread(t)
    \/ \E t \in DOMAIN threads : deleteThread(t)
    \/ Len(subs) < MaxSubs /\ submitMessage
    \/ \E s \in 1..Len(subs) : FetchOk(s)
    \/ \E s \in 1..Len(subs), diag \in {ApiError, NetError} : FetchFail(s, diag)
    \/ \E s \in 1..Len(subs) : ImportDone(s)
    \/ \E s \in 1..Len(subs) :
          /\ Received(Len(subs)) < MaxEvents
          /\ \E e \in ConcEvents(s) : StreamEvent(s, e)
    \/ \E s \in 1..Len(subs) : StreamDone(s)
    \/ \E s \in 1..Len(subs) : StreamFail(s)
    \/ \E s \in 1..Len(subs) : AbortError(s)

Spec == Init /\ [][Next]_vars

-----------------------------------------------------------------------------
(* SpecChain: up to MaxChain successive submissions on one conversation, with
   no thread action between them *)

NextChain ==
    \/ \E input \in ConcInputs : setMessageInput(input)
    \/ Len(subs) < MaxChain /\ submitMessage
    \/ \E s \in 1..Len(subs) : FetchOk(s)
    \/ \E s \in 1..Len(subs) : ImportDone(s)
    \/ \E s \in 1..Len(subs) :
          /\ Received(Len(subs)) < MaxEvents
          /\ \E e \in ConcEvents(s) : StreamEvent(s, e)
    \/ \E s \in 1..Len(subs) : StreamDone(s)
    \/ \E s \in 1..Len(subs) : AbortError(s)

SpecChain == Init /\ [][NextChain]_vars

-----------------------------------------------------------------------------
(* SpecAsm: one submission, every stream of up to MaxAsmEvents events *)

Payloads == { <<"a">>, <<"b">> }

AsmEvents ==
    { MessageStart(ServiceId(1)), MessageStop, ErrorEvent, Event("ping"),
      MessageDelta("end_turn", SomeUsage), MessageDelta(NoReason, SomeUsage) }
    \cup { BlockStart(i, type) : i \in {NoIndex, 0, 1}, type \in {"text", "thinking", "tool_use"} }
    \cup { BlockDelta(i, type, payload) :
              i \in {NoIndex, 0, 1, 2}, type \in {"text_delta", "thinking_delta"},
              payload \in Payloads }
    \cup { BlockStop(i) : i \in {0, 1} }

NextAsm ==
    \/ \E input \in Inputs : setMessageInput(input)
    \/ subs = <<>> /\ submitMessage
    \/ \E s \in 1..Len(subs) : FetchOk(s)
    \/ \E s \in 1..Len(subs), diag \in {ApiError, NetError} : FetchFail(s, diag)
    \/ \E s \in 1..Len(subs) : ImportDone(s)
    \/ \E s \in 1..Len(subs) :
          /\ Len(subs[s].trace) < MaxAsmEvents
          /\ \E e \in AsmEvents : StreamEvent(s, e)
    \/ \E s \in 1..Len(subs) : StreamDone(s)
    \/ \E s \in 1..Len(subs) : StreamFail(s)

SpecAsm == Init /\ [][NextAsm]_vars

-----------------------------------------------------------------------------
(* SpecWF: one submission whose stream is a well-formed single-text-segment
   reply: message_start, content_block_start(0, text), up to MaxDeltas
   text_delta events, content_block_stop(0), message_delta, message_stop *)

RECURSIVE SeqsUpTo(_, _)
SeqsUpTo(S, n) ==
    IF n = 0 THEN { <<>> }
    ELSE LET shorter == SeqsUpTo(S, n - 1)
         IN  shorter \cup { Append(q, x) : q \in shorter, x \in S }

StopReasons == { "end_turn", "max_tokens" }

WellFormed(id, deltas, reason) ==
    << MessageStart(id), BlockStart(0, "text") >>
    \o [i \in 1..Len(deltas) |-> BlockDelta(0, "text_delta", deltas[i])]
    \o << BlockStop(0), MessageDelta(reason, SomeUsage), MessageStop >>

WellFormedStreams ==
    { WellFormed(ServiceId(n), deltas, reason) :
        n \in {1, 2}, deltas \in SeqsUpTo(Payloads, MaxDeltas), reason \in StopReasons }

InitWF ==
    /\ threads = << >>
    /\ nthreads = 0
    /\ selectedThreadId = Null
    /\ messages = <<>>
    /\ messageInput = <<>>
    /\ subs = <<>>
    /\ wire \in WellFormedStreams
    /\ sse = NoStream
    /\ proxy = NoTask
    /\ early = EarlyStore

(* the next event of the scripted stream *)
Scripted(s) ==
    /\ Reading(s)
    /\ wire # <<>>
    /\ Process(s, Head(wire))
    /\ wire' = Tail(wire)
    /\ UNCHANGED <<sse, proxy, early>>

NextWF ==
    \/ \E input \in Inputs : setMessageInput(input)
    \/ subs = <<>> /\ submitMessage
    \/ \E s \in 1..Len(subs) : FetchOk(s)
    \/ \E s \in 1..Len(subs) : ImportDone(s)
    \/ \E s \in 1..Len(subs) : Scripted(s)
    \/ \E s \in 1..Len(subs) : wire = <<>> /\ StreamDone(s)

SpecWF == InitWF /\ [][NextWF]_vars

-----------------------------------------------------------------------------
(* What the properties below read *)

Subs == 1..Len(subs)

Settled(s) == subs[s].pc = "done"

ThreadMessages(t) == IF t \in DOMAIN threads THEN threads[t].messages ELSE <<>>

(* the messages of submission s with the given role in a list *)
Of(list, s, role) == SelectSeq(list, LAMBDA m : m.sub = s /\ m.role = role)

Holds(list, s) == Of(list, s, "user") # <<>> \/ Of(list, s, "assistant") # <<>>

(* every list a reader of the store can reach *)
Histories == { messages } \cup { threads[t].messages : t \in DOMAIN threads }

IsDiagnostic(m) ==
    /\ m.stop_reason = "error"
    /\ Len(m.content) = 1
    /\ Deref(m.content[1]).type = "text"
    /\ Deref(m.content[1]).text \in { <<"Error: ">> \o ApiError, <<"Error: ">> \o NetError }

(* list holds the assistant message of s once, as the error message *)
IsErrorFinal(list, s) ==
    LET own == Of(list, s, "assistant")
    IN  /\ Len(own) = 1
        /\ own[1].id = subs[s].asstId
        /\ IsDiagnostic(own[1])

Has(trace, P(_)) == \E i \in 1..Len(trace) : P(trace[i])

IsStart(e) == e.type = "content_block_start" /\ e.block \in StartedTypes
IsDelta(e) == e.type = "content_block_delta"

-----------------------------------------------------------------------------
(* C1: once a cancelled submission has settled, no message of that submission
   (user or assistant) is left in the store's messages or in the messages of
   the thread it was made on. *)
C1_CancelLeavesNoMessage ==
    \A s \in Subs :
        Settled(s) /\ subs[s].outcome = "aborted"
            => /\ ~Holds(messages, s)
               /\ ~Holds(ThreadMessages(subs[s].threadId), s)

(* C2: when a submission s2 starts on a thread while s1 is in flight there, s1
   is aborted before s2 processes a stream event, and once s1 has settled its
   assistant message is in neither the store's messages nor the thread's. *)
C2_ReplacedNeverCommitted ==
    \A s2 \in Subs : \A s1 \in subs[s2].replaced :
        /\ subs[s2].trace # <<>> => subs[s1].aborted
        /\ Settled(s1) =>
              /\ Of(messages, s1, "assistant") = <<>>
              /\ Of(ThreadMessages(subs[s1].threadId), s1, "assistant") = <<>>

(* C3: at most one submission per thread is in flight and not aborted. *)
C3_OneActivePerThread ==
    \A t \in 1..nthreads :
        Cardinality({ s \in Subs : subs[s].threadId = t /\ ~Settled(s) /\ ~subs[s].aborted }) <= 1

(* C4: the assistant message of a settled submission, wherever it is in a
   history list, carries the stop_reason the service sent or is the error
   message; it is never left with stop_reason null. *)
C4_ExactlyOneOutcome ==
    \A s \in Subs : Settled(s) =>
        \A list \in Histories : \A i \in 1..Len(list) :
            list[i].sub = s /\ list[i].role = "assistant"
                => \/ /\ list[i].stop_reason # NoReason
                      /\ Has(subs[s].trace,
                             LAMBDA e : e.type = "message_delta"
                                        /\ e.stop_reason = list[i].stop_reason)
                   \/ IsDiagnostic(list[i])

(* C5: when a submission whose thread stayed selected settles through the
   error branch (fetch rejected, response not ok, or a read failed), its
   assistant message is in the thread's messages, and in the store's messages
   while that thread is selected, exactly once, with a single diagnostic text
   block as content and stop_reason 'error'; one request was issued. *)
C5_TransportFailureFinalizes ==
    \A s \in Subs :
        Settled(s) /\ subs[s].outcome = "error" /\ subs[s].stayed
            => /\ subs[s].requests = 1
               /\ subs[s].threadId \in DOMAIN threads
                     => IsErrorFinal(threads[subs[s].threadId].messages, s)
               /\ selectedThreadId = subs[s].threadId => IsErrorFinal(messages, s)

(* a read failed after a segment had been started, and the segment is gone *)
C5_Witness ==
    \E s \in Subs :
        /\ Settled(s) /\ subs[s].outcome = "error" /\ subs[s].stayed
        /\ Has(subs[s].trace, IsStart)
        /\ selectedThreadId = subs[s].threadId
        /\ IsErrorFinal(messages, s)

(* C6: a submission whose stream carried the proxy's error event ends with
   the error message (single diagnostic text, stop_reason 'error'). *)
C6_UpstreamErrorFinalizes ==
    \A s \in Subs :
        Settled(s) /\ Has(subs[s].trace, LAMBDA e : e.type = "error")
            => IsErrorFinal(messages, s)

-----------------------------------------------------------------------------
(* Segments as the producer addresses them, read off the events received *)

Starts(trace) == SelectSeq(trace, IsStart)

(* every content_block_start carried an index of its own *)
ExplicitDistinct(trace) ==
    LET st == Starts(trace)
    IN  /\ \A i \in 1..Len(st) : st[i].index # NoIndex
        /\ \A i, j \in 1..Len(st) : i # j => st[i].index # st[j].index

(* the index of the content_block_start that created the referenced block;
   object 1 of a submission is the user's text *)
PositionOf(ref) == Starts(subs[ref[1]].trace)[ref[2] - 1].index

(* the number in objs of the block that the start event trace[j] created *)
ObjectOf(trace, j) == 1 + Len(Starts(SubSeq(trace, 1, j)))

(* the payloads of the deltas of one kind addressed to position p after
   event j, concatenated in arrival order *)
RECURSIVE Addressed(_, _, _, _)
Addressed(trace, j, p, kind) ==
    IF j >= Len(trace) THEN <<>>
    ELSE LET e == trace[j + 1]
         IN  (IF IsDelta(e) /\ e.index = p /\ e.delta = kind THEN e.payload ELSE <<>>)
             \o Addressed(trace, j + 1, p, kind)

-----------------------------------------------------------------------------
(* C7: after a well-formed single-text-segment stream, the history holds the
   assistant message once, with the id of message_start, one text block whose
   text is the concatenation of the deltas and whose citations are empty, and
   the stop_reason of message_delta; the thread's list holds the same. *)
C7_WellFormedReply ==
    \A s \in Subs : Settled(s) =>
        LET tr == subs[s].trace
            own == Of(messages, s, "assistant")
        IN  /\ Len(own) = 1
            /\ own[1].id = tr[1].id
            /\ Len(own[1].content) = 1
            /\ Deref(own[1].content[1]).type = "text"
            /\ Deref(own[1].content[1]).text = Addressed(tr, 0, 0, "text_delta")
            /\ Deref(own[1].content[1]).citations = <<>>
            /\ own[1].stop_reason = tr[Len(tr) - 1].stop_reason
            /\ ThreadMessages(subs[s].threadId) = messages

(* a reply of two deltas, "a" then "b", has been assembled as "ab" *)
C7_Witness ==
    \E s \in Subs :
        /\ Settled(s)
        /\ Len(SelectSeq(subs[s].trace, IsDelta)) = 2
        /\ Len(messages) = 2
        /\ messages[2].stop_reason = "max_tokens"
        /\ Deref(messages[2].content[1]).text = <<"a", "b">>

(* C8: after a completed stream whose content_block_start events carried
   distinct explicit indices, the assistant message lists every started
   segment, in ascending order of index. *)
C8_AscendingPositions ==
    \A s \in Subs :
        Settled(s) /\ subs[s].outcome = "completed" /\ ExplicitDistinct(subs[s].trace)
            => \A m \in { messages[i] : i \in 1..Len(messages) } :
                  m.sub = s /\ m.role = "assistant"
                      => /\ Len(m.content) = Len(Starts(subs[s].trace))
                         /\ \A i, j \in 1..Len(m.content) :
                               i < j => PositionOf(m.content[i]) < PositionOf(m.content[j])

(* C9: after a completed stream in which every start and delta carried an
   explicit index, starts were distinct and nothing was stopped, the text of
   each text segment (the thinking of each thinking segment) is the
   concatenation, in arrival order, of the text_delta (thinking_delta)
   payloads addressed to its index after its start. *)
C9_ExactConcatenation ==
    \A s \in Subs :
        LET tr == subs[s].trace
        IN  /\ Settled(s) /\ subs[s].outcome = "completed"
            /\ ExplicitDistinct(tr)
            /\ ~Has(tr, LAMBDA e : IsDelta(e) /\ e.index = NoIndex)
            /\ ~Has(tr, LAMBDA e : e.type = "content_block_stop")
            => \A j \in 1..Len(tr) :
                  IsStart(tr[j]) =>
                      LET obj == subs[s].objs[ObjectOf(tr, j)]
                      IN  /\ tr[j].block = "text"
                                => obj.text = Addressed(tr, j, tr[j].index, "text_delta")
                          /\ tr[j].block = "thinking"
                                => obj.thinking = Addressed(tr, j, tr[j].index, "thinking_delta")

(* C10: processing a content_block_delta whose index is one at which no
   content_block_start was received (all starts so far having carried an
   explicit index) changes no block and does not end the submission. *)
C10_StrayDeltaIgnored ==
    [][\A s \in Subs :
          Len(subs'[s].trace) = Len(subs[s].trace) + 1 =>
              LET e == subs'[s].trace[Len(subs'[s].trace)]
              IN  /\ IsDelta(e) /\ e.index # NoIndex
                  /\ ExplicitDistinct(subs[s].trace)
                  /\ ~Has(subs[s].trace, LAMBDA b : IsStart(b) /\ b.index = e.index)
                  => /\ subs'[s].objs = subs[s].objs
                     /\ subs'[s].contentBlocks = subs[s].contentBlocks
                     /\ subs'[s].pc = subs[s].pc]_vars

-----------------------------------------------------------------------------
(* SpecBlank: submissions with empty, whitespace-only and non-blank input,
   also while an earlier submission is in flight *)

NextBlank ==
    \/ \E input \in Inputs : setMessageInput(input)
    \/ \E t \in DOMAIN threads \cup {Null} : selectThread(t)
    \/ Len(subs) < MaxSubs /\ submitMessage
    \/ \E s \in 1..Len(subs) : FetchOk(s)
    \/ \E s \in 1..Len(subs) : ImportDone(s)
    \/ \E s \in 1..Len(subs) : StreamDone(s)
    \/ \E s \in 1..Len(subs) : AbortError(s)

SpecBlank == Init /\ [][NextBlank]_vars

-----------------------------------------------------------------------------
(* SpecEarly: the store of part_000 under every interleaving of user actions
   and of the continuations of up to MaxEarlyCalls calls of submitMessage *)

MaxEarlyCalls == 2
MaxEarlyEvents == 2

EarlyEvents(c) ==
    { MessageStart(ServiceId(c)), BlockStart(0, "text"),
      BlockDelta(0, "text_delta", <<"a">>), MessageStop }

RECURSIVE EarlyReceived(_)
EarlyReceived(n) == IF n = 0 THEN 0 ELSE Len(early.calls[n].trace) + EarlyReceived(n - 1)

NextEarly ==
    \/ \E input \in ConcInputs : EarlySetMessageInput(input)
    \/ EarlyCreateThread
    \/ \E t \in DOMAIN early.threads \cup {Null} : EarlySelectThread(t)
    \/ \E t \in DOMAIN early.threads : EarlyDeleteThread(t)
    \/ Len(early.calls) < MaxEarlyCalls /\ EarlySubmitMessage
    \/ \E c \in 1..Len(early.calls) : EarlyFetchOk(c)
    \/ \E c \in 1..Len(early.calls) : EarlyFetchFail(c)
    \/ \E c \in 1..Len(early.calls) : EarlyImportDone(c)
    \/ \E c \in 1..Len(early.calls) :
          /\ EarlyReceived(Len(early.calls)) < MaxEarlyEvents
          /\ \E e \in EarlyEvents(c) : EarlyStreamEvent(c, e)
    \/ \E c \in 1..Len(early.calls) : EarlyStreamDone(c)
    \/ \E c \in 1..Len(early.calls) : EarlyStreamFail(c)

SpecEarly == Init /\ [][NextEarly]_vars

-----------------------------------------------------------------------------
(* SpecThinking: one call of part_000's submitMessage whose stream is a reply
   of up to MaxSegments thinking segments, each with up to MaxDeltas
   thinking_delta events, followed by a text segment: message_start, then per
   segment content_block_start(i), its deltas, content_block_stop(i), then
   message_stop *)

MaxSegments == 2

Segment(i, type, delta, deltas) ==
    << BlockStart(i, type) >>
    \o [j \in 1..Len(deltas) |-> BlockDelta(i, delta, deltas[j])]
    \o << BlockStop(i) >>

RECURSIVE ThinkingSegments(_)
ThinkingSegments(texts) ==
    IF texts = <<>> THEN <<>>
    ELSE ThinkingSegments(SubSeq(texts, 1, Len(texts) - 1))
         \o Segment(Len(texts) - 1, "thinking", "thinking_delta", texts[Len(texts)])

ThinkingReply(texts) ==
    << MessageStart(ServiceId(1)) >>
    \o ThinkingSegments(texts)
    \o Segment(Len(texts), "text", "text_delta", << <<"t">> >>)
    \o << MessageStop >>

ThinkingReplies ==
    { ThinkingReply(texts) :
        texts \in SeqsUpTo(SeqsUpTo(Payloads, MaxDeltas), MaxSegments) \ { <<>> } }

InitThinking ==
    /\ threads = << >>
    /\ nthreads = 0
    /\ selectedThreadId = Null
    /\ messages = <<>>
    /\ messageInput = <<>>
    /\ subs = <<>>
    /\ wire \in ThinkingReplies
    /\ sse = NoStream
    /\ proxy = NoTask
    /\ early = EarlyStore

(* the next event of the scripted reply *)
EarlyScripted(c) ==
    /\ EarlyAt(c, "stream")
    /\ wire # <<>>
    /\ early' = EarlyDispatch([early EXCEPT !.calls[c].trace = Append(@, Head(wire))],
                              c, Head(wire))
    /\ wire' = Tail(wire)
    /\ UNCHANGED <<threads, nthreads, selectedThreadId, messages, messageInput, subs, sse, proxy>>

NextThinking ==
    \/ \E input \in Inputs : EarlySetMessageInput(input)
    \/ early.calls = <<>> /\ EarlySubmitMessage
    \/ \E c \in 1..Len(early.calls) : EarlyFetchOk(c)
    \/ \E c \in 1..Len(early.calls) : EarlyImportDone(c)
    \/ \E c \in 1..Len(early.calls) : EarlyScripted(c)
    \/ \E c \in 1..Len(early.calls) : wire = <<>> /\ EarlyStreamDone(c)

SpecThinking == InitThinking /\ [][NextThinking]_vars

-----------------------------------------------------------------------------
(* SpecKinds: one submission whose stream starts segments of every type the
   loop initialises, at explicit indices, and sends deltas of every type *)

MaxKindEvents == 3

ToolInput == <<>>
SearchResults == <<"r">>

KindEvents ==
    { BlockStart(i, type) : i \in {0, 1}, type \in {"text", "thinking"} }
    \cup { BlockStartWith(i, type, ToolInput) :
              i \in {0, 1}, type \in {"tool_use", "server_tool_use"} }
    \cup { BlockStartWith(i, "web_search_tool_result", SearchResults) : i \in {0, 1} }
    \cup { BlockDelta(i, type, payload) :
              i \in {0, 1},
              type \in {"text_delta", "thinking_delta", "citations_delta", "input_json_delta"},
              payload \in Payloads }

NextKinds ==
    \/ \E input \in ConcInputs : setMessageInput(input)
    \/ subs = <<>> /\ submitMessage
    \/ \E s \in 1..Len(subs) : FetchOk(s)
    \/ \E s \in 1..Len(subs) : ImportDone(s)
    \/ \E s \in 1..Len(subs) :
          /\ Len(subs[s].trace) < MaxKindEvents
          /\ \E e \in KindEvents : StreamEvent(s, e)
    \/ \E s \in 1..Len(subs) : StreamDone(s)

SpecKinds == Init /\ [][NextKinds]_vars

-----------------------------------------------------------------------------
(* SpecSSE: one call of parseSSEStream on a body of up to MaxLines lines and
   an unterminated tail, or on a body that createSSEResponse wrote from up to
   MaxWritten payloads, delivered in chunks cut at any place *)

MaxLines == 3
MaxWritten == 2

LineKinds ==
    { DataPrefix \o Stringify("a"),
      DataPrefix \o <<" ">> \o Stringify("b") \o <<" ">>,
      DataPrefix \o <<"{", "a">>,
      DataPrefix \o Sentinel,
      <<"event:", " ", "a">>,
      <<>> }

RECURSIVE Joined(_)
Joined(lines) ==
    IF lines = <<>> THEN <<>> ELSE Head(lines) \o <<LF>> \o Joined(Tail(lines))

RECURSIVE Proxied(_)
Proxied(payloads) ==
    IF payloads = <<>> THEN SSEClose
    ELSE SSEWrite(Stringify(Head(payloads))) \o Proxied(Tail(payloads))

Reading0(text, proxied, written) ==
    [NoStream EXCEPT !.state = "reading", !.body = text, !.sent = text,
                     !.proxy = proxied, !.written = written]

InitSSE ==
    /\ threads = << >>
    /\ nthreads = 0
    /\ selectedThreadId = Null
    /\ messages = <<>>
    /\ messageInput = <<>>
    /\ subs = <<>>
    /\ wire = <<>>
    /\ proxy = NoTask
    /\ early = EarlyStore
    /\ sse \in { Reading0(Joined(lines) \o tail, FALSE, <<>>) :
                    lines \in SeqsUpTo(LineKinds, MaxLines), tail \in LineKinds }
               \cup { Reading0(Proxied(payloads), TRUE, payloads) :
                        payloads \in SeqsUpTo(EventNames, MaxWritten) }

NextSSE ==
    \/ \E n \in 1..Len(sse.body) : ReadChunk(n)
    \/ ReadDone

SpecSSE == InitSSE /\ [][NextSSE]_vars

-----------------------------------------------------------------------------
(* SpecProxy: the background task of one POST of the proxy route, from the
   call of anthropic.messages.create to the end of the task.  The upstream
   stream sends up to MaxChunks chunks and then ends or throws; the client
   may abandon the response at any moment (fetch aborted by chat.ts), after
   which every write and the close of the writer reject. *)

MaxChunks == 3

ErrorChunk == "error"

StoreIdle ==
    UNCHANGED <<threads, nthreads, selectedThreadId, messages, messageInput, subs, wire, sse, early>>

(* a rejected await: into the catch block from the try block, out of the
   task from the catch block *)
Rejected(p) ==
    IF p.inCatch THEN [p EXCEPT !.pc = "rejected"]
    ELSE [p EXCEPT !.pc = "catch", !.inCatch = TRUE]

(* await write(data) *)
Written(p, data, pc) ==
    IF p.cancelled THEN Rejected(p)
    ELSE [p EXCEPT !.out = @ \o data, !.pc = pc]

CreateResolves ==
    /\ proxy.pc = "create"
    /\ proxy' = [proxy EXCEPT !.pc = "next"]
    /\ StoreIdle

CreateRejects ==
    /\ proxy.pc = "create"
    /\ proxy' = [proxy EXCEPT !.pc = "catch", !.inCatch = TRUE, !.threw = TRUE]
    /\ StoreIdle

(* one iteration of for await: write(JSON.stringify(chunk)) *)
UpstreamChunk(x) ==
    /\ proxy.pc = "next"
    /\ Len(proxy.sent) < MaxChunks
    /\ proxy' = IF proxy.cancelled THEN Rejected(proxy)
                ELSE [Written(proxy, SSEWrite(Stringify(x)), "next") EXCEPT
                         !.sent = Append(@, x)]
    /\ StoreIdle

UpstreamEnds ==
    /\ proxy.pc = "next"
    /\ proxy' = [proxy EXCEPT !.pc = "close"]
    /\ StoreIdle

UpstreamThrows ==
    /\ proxy.pc = "next"
    /\ proxy' = [proxy EXCEPT !.pc = "catch", !.inCatch = TRUE, !.threw = TRUE]
    /\ StoreIdle

(* a catch block that goes straight to close() *)
CatchWriteNothing(p) == [p EXCEPT !.pc = "close"]

(* catch: write(JSON.stringify({ type: 'error', error })) *)
CatchWrite(p) == Written(p, SSEWrite(Stringify(ErrorChunk)), "close")

Catch ==
    /\ proxy.pc = "catch"
    /\ proxy' = CatchWrite(proxy)
    /\ StoreIdle

(* close(), first await: the sentinel *)
CloseWrite ==
    /\ proxy.pc = "close"
    /\ proxy' = Written(proxy, SSEClose, "closing")
    /\ StoreIdle

(* close(), second await: writer.close() *)
CloseStream ==
    /\ proxy.pc = "closing"
    /\ proxy' = IF proxy.cancelled THEN Rejected(proxy) ELSE [proxy EXCEPT !.pc = "closed"]
    /\ StoreIdle

(* the client goes away: AbortController.abort() on the fetch *)
ClientCancel ==
    /\ proxy.pc \in {"create", "next", "catch", "close", "closing"}
    /\ ~proxy.cancelled
    /\ proxy' = [proxy EXCEPT !.cancelled = TRUE]
    /\ StoreIdle

InitProxy ==
    /\ threads = << >>
    /\ nthreads = 0
    /\ selectedThreadId = Null
    /\ messages = <<>>
    /\ messageInput = <<>>
    /\ subs = <<>>
    /\ wire = <<>>
    /\ sse = NoStream
    /\ proxy = [NoTask EXCEPT !.pc = "create"]
    /\ early = EarlyStore

TaskStep ==
    \/ CreateResolves
    \/ CreateRejects
    \/ \E x \in EventNames : UpstreamChunk(x)
    \/ UpstreamEnds
    \/ UpstreamThrows
    \/ Catch
    \/ CloseWrite
    \/ CloseStream

NextProxy ==
    \/ TaskStep
    \/ ClientCancel

(* the event loop runs every continuation that is ready, and the upstream
   stream is finite *)
SpecProxy == InitProxy /\ [][NextProxy]_vars /\ WF_vars(TaskStep)

-----------------------------------------------------------------------------
(* SpecBudget: the arguments of messages.create for every POST whose body
   carries an integer max_tokens of 1..MaxTokens and any of the beta features *)

MaxTokens == 12600
BudgetCap == 10000

(* 80% of max_tokens with no upper limit *)
UncappedBudget(max_tokens) == (max_tokens * 8) \div 10

(* Math.floor(Math.min(max_tokens * 0.8, 10000)), in tenths of a token: for
   an integer max_tokens the double product max_tokens * 0.8 has the floor of
   the exact product *)
ThinkingBudget(max_tokens) ==
    (IF max_tokens * 8 <= BudgetCap * 10 THEN max_tokens * 8 ELSE BudgetCap * 10) \div 10

ThinkingParam(max_tokens, betaFeatures) ==
    IF "thinking" \in betaFeatures
    THEN [type |-> "enabled", budget_tokens |-> ThinkingBudget(max_tokens)]
    ELSE NoThinking

InitBudget ==
    /\ threads = << >>
    /\ nthreads = 0
    /\ selectedThreadId = Null
    /\ messages = <<>>
    /\ messageInput = <<>>
    /\ subs = <<>>
    /\ wire = <<>>
    /\ sse = NoStream
    /\ proxy \in { [NoTask EXCEPT !.pc = "post", !.max_tokens = max_tokens,
                                   !.betaFeatures = betaFeatures] :
                      max_tokens \in 1..MaxTokens,
                      betaFeatures \in SUBSET { "thinking", "web-search" } }
    /\ early = EarlyStore

(* POST from the body to the call of messages.create in the background task *)
Post ==
    /\ proxy.pc = "post"
    /\ proxy' = [proxy EXCEPT
                    !.pc = "create",
                    !.thinking = ThinkingParam(proxy.max_tokens, proxy.betaFeatures)]
    /\ StoreIdle

NextBudget == Post

SpecBudget == InitBudget /\ [][NextBudget]_vars

-----------------------------------------------------------------------------
(* What the frame properties read: the newline-terminated lines of the whole
   body, and what each of them is *)

CompleteLines(text) == SubSeq(Split(text), 1, Len(Split(text)) - 1)

IsData(line) == StartsWith(line, DataPrefix)
PayloadOf(line) == Trim(SubSeq(line, Len(DataPrefix) + 1, Len(line)))
IsSentinelLine(line) == IsData(line) /\ PayloadOf(line) = Sentinel
IsEventLine(line) == IsData(line) /\ \E x \in EventNames : PayloadOf(line) = Stringify(x)
IsBadLine(line) == IsData(line) /\ ~IsSentinelLine(line) /\ ~IsEventLine(line)

(* the lines before the first sentinel line *)
RECURSIVE BeforeSentinel(_)
BeforeSentinel(lines) ==
    IF lines = <<>> \/ IsSentinelLine(Head(lines)) THEN <<>>
    ELSE << Head(lines) >> \o BeforeSentinel(Tail(lines))

(* the events of the event lines, in order *)
RECURSIVE EventsOf(_)
EventsOf(lines) ==
    IF lines = <<>> THEN <<>>
    ELSE (IF IsEventLine(Head(lines)) THEN << PayloadOf(Head(lines))[2] >> ELSE <<>>)
         \o EventsOf(Tail(lines))

(* the payloads of the data lines that are neither events nor the sentinel *)
RECURSIVE BadOf(_)
BadOf(lines) ==
    IF lines = <<>> THEN <<>>
    ELSE (IF IsBadLine(Head(lines)) THEN << PayloadOf(Head(lines)) >> ELSE <<>>)
         \o BadOf(Tail(lines))

(* no data line comes after a sentinel line *)
SentinelLast(lines) ==
    \A i, j \in 1..Len(lines) : IsSentinelLine(lines[i]) /\ i < j => ~IsData(lines[j])

-----------------------------------------------------------------------------
(* C11: when the body has been read, the events yielded are those of the
   lines before the first `data: [DONE]` line; nothing after it is yielded. *)
C11_StopsAtSentinel ==
    sse.state = "done"
        => sse.yielded = EventsOf(BeforeSentinel(CompleteLines(sse.sent)))

(* C12: for a body in which no data line follows a sentinel, when the body
   has been read the events yielded are exactly those of the well-formed
   data lines, in order, and one diagnostic was logged for each data line
   whose payload is not valid JSON, with that payload. *)
C12_BadFrameDropped ==
    sse.state = "done" /\ SentinelLast(CompleteLines(sse.sent))
        => /\ sse.yielded = EventsOf(CompleteLines(sse.sent))
           /\ sse.logged = BadOf(CompleteLines(sse.sent))

(* a malformed frame between two well-formed ones was dropped and logged *)
C12_Witness ==
    /\ sse.state = "done"
    /\ \E i \in 1..Len(CompleteLines(sse.sent)) :
          /\ IsBadLine(CompleteLines(sse.sent)[i])
          /\ i > 1 /\ IsEventLine(CompleteLines(sse.sent)[i - 1])
          /\ i < Len(CompleteLines(sse.sent)) /\ IsEventLine(CompleteLines(sse.sent)[i + 1])
    /\ sse.yielded = <<"a", "b">>
    /\ sse.logged = << <<"{", "a">> >>

(* C13: whatever the chunks were, when the body has been read what was
   yielded and logged is what one chunk holding the whole body gives; for a
   body written by createSSEResponse it is the written payloads, in order. *)
C13_ChunkingIrrelevant ==
    sse.state = "done"
        => /\ sse.yielded = OnChunk(Reading0(<<>>, FALSE, <<>>), sse.sent).yielded
           /\ sse.logged = OnChunk(Reading0(<<>>, FALSE, <<>>), sse.sent).logged
           /\ sse.proxy => sse.yielded = sse.written

(* a proxy body of two payloads was read with a chunk ending inside 'data: ' *)
C13_Witness ==
    /\ sse.state = "done"
    /\ sse.proxy /\ sse.cut
    /\ sse.yielded = <<"a", "b">>

(* C14: the step on which the reader reports the end of the body yields and
   logs nothing: what is left in the buffer is dropped. *)
C14_TailDiscarded ==
    [][sse.state = "reading" /\ sse'.state = "done"
          => sse'.yielded = sse.yielded /\ sse'.logged = sse.logged]_vars

(* the body ended with a complete, parseable frame that lacked its newline *)
C14_Witness ==
    /\ sse.state = "done"
    /\ sse.buffer = DataPrefix \o Stringify("a")
    /\ sse.yielded = <<"b">>

(* the event a step of submission s has just processed, if any *)
Stepped(s) == Len(subs'[s].trace) = Len(subs[s].trace) + 1
Last(trace) == trace[Len(trace)]

(* C15: a step that processes an event whose type is none of the known ones
   changes neither list of messages, nor any thread, nor the segments of the
   submission, and leaves the submission reading its stream. *)
C15_UnknownEventIgnored ==
    [][\A s \in Subs :
          Stepped(s) /\ Last(subs'[s].trace).type \notin KnownTypes
              => /\ messages' = messages
                 /\ threads' = threads
                 /\ subs'[s].objs = subs[s].objs
                 /\ subs'[s].contentBlocks = subs[s].contentBlocks
                 /\ subs'[s].asstId = subs[s].asstId
                 /\ subs'[s].pc = "stream"]_vars

(* an unknown event arrived between a segment's start and its delta, and the
   delta was applied *)
C15_Witness ==
    \E s \in Subs :
        /\ Len(subs[s].trace) = 3
        /\ subs[s].trace[1] = BlockStart(0, "text")
        /\ subs[s].trace[2].type \notin KnownTypes
        /\ subs[s].trace[3] = BlockDelta(0, "text_delta", <<"a">>)
        /\ \E m \in 1..Len(messages) :
              /\ messages[m].sub = s /\ messages[m].role = "assistant"
              /\ Len(messages[m].content) = 1
              /\ Deref(messages[m].content[1]).text = <<"a">>

(* C16: after a completed stream in which starts carried distinct explicit
   indices and deltas explicit ones, every started segment whose index got no
   content_block_stop is in the content of the assistant message, a text segment
   holding the concatenation of the text deltas addressed to it after its
   start and a thinking segment that of the thinking deltas. *)
C16_UnstoppedSegmentsKept ==
    \A s \in Subs :
        LET tr == subs[s].trace
        IN  /\ Settled(s) /\ subs[s].outcome = "completed"
            /\ ExplicitDistinct(tr)
            /\ ~Has(tr, LAMBDA e : IsDelta(e) /\ e.index = NoIndex)
            => \A j \in 1..Len(tr) :
                  /\ IsStart(tr[j])
                  /\ ~\E k \in (j + 1)..Len(tr) :
                        tr[k].type = "content_block_stop" /\ tr[k].index = tr[j].index
                  => LET k == ObjectOf(tr, j)
                         own == Of(messages, s, "assistant")
                     IN  /\ Len(own) = 1
                         /\ \E i \in 1..Len(own[1].content) : own[1].content[i] = <<s, k>>
                         /\ subs[s].objs[k].type = tr[j].block
                         /\ tr[j].block = "text" =>
                               subs[s].objs[k].text = Addressed(tr, j, tr[j].index, "text_delta")
                         /\ tr[j].block = "thinking" =>
                               subs[s].objs[k].thinking = Addressed(tr, j, tr[j].index, "thinking_delta")

(* C17: a step that deletes a thread leaves every submission made on that
   thread and not yet settled aborted. *)
C17_DeleteCancelsInFlight ==
    [][\A t \in DOMAIN threads :
          t \notin DOMAIN threads'
              => \A s \in Subs :
                    subs[s].threadId = t /\ ~Settled(s) => subs'[s].aborted]_vars

(* the stop_reason of the last message_delta of a trace that carried one *)
RECURSIVE LastReason(_)
LastReason(trace) ==
    IF trace = <<>> THEN NoReason
    ELSE IF Last(trace).type = "message_delta" /\ Last(trace).stop_reason # NoReason
         THEN Last(trace).stop_reason
         ELSE LastReason(SubSeq(trace, 1, Len(trace) - 1))

(* C18: when a submission has completed normally and its thread still
   exists, the thread's messages hold its assistant message once, with every
   segment started during the stream and the stop_reason received, whatever
   thread was selected while the events arrived. *)
C18_ThreadHistoryComplete ==
    \A s \in Subs :
        Settled(s) /\ subs[s].outcome = "completed" /\ subs[s].threadId \in DOMAIN threads
            => LET own == Of(threads[subs[s].threadId].messages, s, "assistant")
               IN  /\ Len(own) = 1
                   /\ own[1].content = Filtered(s, subs[s].contentBlocks)
                   /\ own[1].stop_reason = LastReason(subs[s].trace)

(* C19: a submission that found an earlier one in flight on its thread has
   added no message to a history and issued no request for as long as that
   earlier submission has not settled. *)
C19_WaitsForEarlier ==
    \A s2 \in Subs : \A s1 \in subs[s2].replaced :
        ~Settled(s1)
            => /\ subs[s2].requests = 0
               /\ \A list \in Histories : ~Holds(list, s2)

(* C20: a step that processes an event of a stream whose message_stop was
   processed before changes neither the content (the list of segments and
   what each holds), nor the stop_reason, nor the usage of the submission's
   assistant message. *)
C20_ImmutableAfterStop ==
    [][\A s \in Subs :
          Stepped(s) /\ Has(subs[s].trace, LAMBDA e : e.type = "message_stop")
              => /\ subs'[s].objs = subs[s].objs
                 /\ Len(messages') = Len(messages)
                 /\ \A i \in 1..Len(messages) :
                       messages[i].sub = s /\ messages[i].role = "assistant"
                           => /\ messages'[i].content = messages[i].content
                              /\ messages'[i].stop_reason = messages[i].stop_reason
                              /\ messages'[i].usage = messages[i].usage]_vars

(* C21: the history lists (the store's messages and every thread's) hold
   no assistant message of a submission that has not settled, and none of a
   submission that was cancelled. *)
C21_HistoryOnlyCommitted ==
    \A s \in Subs :
        ~Settled(s) \/ subs[s].aborted
            => \A list \in Histories : Of(list, s, "assistant") = <<>>

(* the content, as a list of references, of the assistant message of
   submission s in the store's messages *)
ContentOf(list, s) ==
    IF Of(list, s, "assistant") = <<>> THEN <<>> ELSE Of(list, s, "assistant")[1].content

(* C22: a step that processes a content_block_start whose explicit index is
   that of an earlier content_block_start of the stream changes no segment:
   the blocks, their places and the content of the assistant message stay
   as they were. *)
C22_RestartIgnored ==
    [][\A s \in Subs :
          /\ Stepped(s)
          /\ IsStart(Last(subs'[s].trace)) /\ Last(subs'[s].trace).index # NoIndex
          /\ Has(subs[s].trace,
                 LAMBDA b : IsStart(b) /\ b.index = Last(subs'[s].trace).index)
          => /\ subs'[s].objs = subs[s].objs
             /\ subs'[s].contentBlocks = subs[s].contentBlocks
             /\ ContentOf(messages', s) = ContentOf(messages, s)]_vars

(* C23: a step that processes a content_block_delta with an explicit index
   for which a content_block_stop was processed before changes no block. *)
C23_ClosedSegmentFrozen ==
    [][\A s \in Subs :
          /\ Stepped(s)
          /\ IsDelta(Last(subs'[s].trace)) /\ Last(subs'[s].trace).index # NoIndex
          /\ Has(subs[s].trace,
                 LAMBDA b : b.type = "content_block_stop"
                            /\ b.index = Last(subs'[s].trace).index)
          => subs'[s].objs = subs[s].objs]_vars

(* C24: a step that processes a content_block_delta creates no block and
   changes no block's type; it changes a block's text only if it is a
   text_delta and the block a text block, a block's thinking only if it is a
   thinking_delta and the block a thinking block, a block's citations only if
   it is a citations_delta and the block a text block. *)
C24_DeltaKindCompatible ==
    [][\A s \in Subs :
          Stepped(s) /\ IsDelta(Last(subs'[s].trace))
              => LET e == Last(subs'[s].trace)
                 IN  /\ Len(subs'[s].objs) = Len(subs[s].objs)
                     /\ \A k \in 1..Len(subs[s].objs) :
                           LET old == subs[s].objs[k]
                               new == subs'[s].objs[k]
                           IN  /\ new.type = old.type
                               /\ new.received = old.received
                               /\ new.text # old.text
                                     => e.delta = "text_delta" /\ old.type = "text"
                               /\ new.thinking # old.thinking
                                     => e.delta = "thinking_delta" /\ old.type = "thinking"
                               /\ new.citations # old.citations
                                     => e.delta = "citations_delta" /\ old.type = "text"]_vars

(* a text segment got a thinking_delta, which changed nothing, and then a
   text_delta, which was appended *)
C24_Witness ==
    \E s \in Subs :
        /\ subs[s].trace = << BlockStart(0, "text"),
                              BlockDelta(0, "thinking_delta", <<"a">>),
                              BlockDelta(0, "text_delta", <<"b">>) >>
        /\ subs[s].objs[2] = [Block("text") EXCEPT !.text = <<"b">>]
        /\ ContentOf(messages, s) = << <<s, 2>> >>

(* C25: after a completed stream whose starts carried distinct indices,
   the input of every tool_use or server_tool_use segment is what its start
   carried followed by the input_json_delta fragments addressed to its index
   after its start, in arrival order. *)
C25_ToolInputAccumulated ==
    \A s \in Subs :
        LET tr == subs[s].trace
        IN  Settled(s) /\ subs[s].outcome = "completed" /\ ExplicitDistinct(tr)
            => \A j \in 1..Len(tr) :
                  IsStart(tr[j]) /\ tr[j].block \in {"tool_use", "server_tool_use"}
                      => subs[s].objs[ObjectOf(tr, j)].received
                            = tr[j].payload \o Addressed(tr, j, tr[j].index, "input_json_delta")

(* C26: a step that processes a message_delta leaves the assistant message
   in the store's messages with the event's stop_reason if it carries one and
   the old stop_reason otherwise, and with the event's usage if it carries
   one and the old usage otherwise. *)
C26_MessageDeltaMerges ==
    [][\A s \in Subs :
          Stepped(s) /\ Last(subs'[s].trace).type = "message_delta"
              => LET e == Last(subs'[s].trace)
                 IN  /\ Len(messages') = Len(messages)
                     /\ \A i \in 1..Len(messages) :
                           messages[i].sub = s /\ messages[i].role = "assistant"
                               => /\ messages'[i].stop_reason =
                                        IF e.stop_reason # NoReason THEN e.stop_reason
                                        ELSE messages[i].stop_reason
                                  /\ messages'[i].usage =
                                        IF e.usage # NoUsage THEN e.usage
                                        ELSE messages[i].usage]_vars

(* C27: a step that processes a content_block_start without index appends
   its segment after the last place in use and replaces none; a step that
   processes a content_block_delta without index changes no block that a
   content_block_start with an explicit index created. *)
C27_OmittedIndexIsNextUnused ==
    [][\A s \in Subs :
          Stepped(s) /\ Last(subs'[s].trace).index = NoIndex
              => LET e == Last(subs'[s].trace)
                     tr == subs[s].trace
                 IN  /\ IsStart(e)
                        => /\ subs'[s].objs = Append(subs[s].objs, Block(e.block))
                           /\ subs'[s].contentBlocks
                                 = Append(subs[s].contentBlocks, Len(subs[s].objs) + 1)
                     /\ IsDelta(e)
                        => \A j \in 1..Len(tr) :
                              IsStart(tr[j]) /\ tr[j].index # NoIndex
                                  => subs'[s].objs[ObjectOf(tr, j)]
                                        = subs[s].objs[ObjectOf(tr, j)]]_vars

(* C28: a step that processes the content_block_start of a
   web_search_tool_result adds a block holding what the event carried, and
   the assistant message lists it; a step that processes a
   content_block_delta changes no web_search_tool_result block. *)
C28_SearchResultAsReceived ==
    [][\A s \in Subs :
          Stepped(s)
              => LET e == Last(subs'[s].trace)
                 IN  /\ IsStart(e) /\ e.block = "web_search_tool_result"
                        => /\ subs'[s].objs =
                                 Append(subs[s].objs,
                                        [Block(e.block) EXCEPT !.received = e.payload])
                           /\ \E i \in 1..Len(ContentOf(messages', s)) :
                                 ContentOf(messages', s)[i] = <<s, Len(subs'[s].objs)>>
                     /\ IsDelta(e)
                        => \A k \in 1..Len(subs[s].objs) :
                              subs[s].objs[k].type = "web_search_tool_result"
                                  => subs'[s].objs[k] = subs[s].objs[k]]_vars

(* search results arrived and two deltas addressed to them changed nothing *)
C28_Witness ==
    \E s \in Subs :
        /\ subs[s].trace = << BlockStartWith(0, "web_search_tool_result", SearchResults),
                              BlockDelta(0, "text_delta", <<"a">>),
                              BlockDelta(0, "citations_delta", <<"b">>) >>
        /\ subs[s].objs[2] = [Block("web_search_tool_result") EXCEPT !.received = SearchResults]
        /\ ContentOf(messages, s) = << <<s, 2>> >>

(* C29: no step changes a block that a message of the store's messages
   refers to before the step: what a reader holding the earlier messages
   sees through them stays as it was. *)
C29_SnapshotsStable ==
    [][\A i \in 1..Len(messages) : \A j \in 1..Len(messages[i].content) :
          subs'[messages[i].content[j][1]].objs[messages[i].content[j][2]]
              = Deref(messages[i].content[j])]_vars

(* the payloads of the frames of a body, in order *)
RECURSIVE FramesOf(_)
FramesOf(lines) ==
    IF lines = <<>> THEN <<>>
    ELSE (IF IsData(Head(lines)) THEN << PayloadOf(Head(lines)) >> ELSE <<>>)
         \o FramesOf(Tail(lines))

Frames == FramesOf(CompleteLines(proxy.out))

(* the frames of a finished body: the chunks, the error frame if the upstream
   call or iteration threw, the sentinel *)
Expected ==
    [i \in 1..Len(proxy.sent) |-> Stringify(proxy.sent[i])]
    \o (IF proxy.threw THEN << Stringify(ErrorChunk) >> ELSE <<>>)
    \o << Sentinel >>

(* C30: in the body of a POST, a sentinel frame is always the last frame;
   when the writer has been closed the frames are the chunks written, then
   the error frame if the upstream call or iteration threw, then the
   sentinel; and unless the client abandons the response, the writer is
   eventually closed. *)
C30_BodyEndsWithSentinel ==
    /\ [](\A i \in 1..Len(Frames) : Frames[i] = Sentinel => i = Len(Frames))
    /\ [](proxy.pc = "closed" => Frames = Expected)
    /\ <>(proxy.pc = "closed" \/ proxy.cancelled)

(* the upstream iteration threw after two chunks and the body was closed *)
C30_Witness ==
    /\ proxy.pc = "closed"
    /\ proxy.threw
    /\ proxy.sent = <<"a", "b">>
    /\ Frames = << Stringify("a"), Stringify("b"), Stringify(ErrorChunk), Sentinel >>

(* C31: while a submission is in flight and not aborted and its thread
   exists, the thread's abortController is that submission's. *)
C31_ControllerIsOwn ==
    \A s \in Subs :
        ~Settled(s) /\ ~subs[s].aborted /\ subs[s].threadId \in DOMAIN threads
            => threads[subs[s].threadId].abortController = s

(* C32: whenever the selected thread exists, the store's messages are that
   thread's messages. *)
C32_MessagesMirrorSelected ==
    selectedThreadId \in DOMAIN threads
        => messages = threads[selectedThreadId].messages

(* the step is a continuation of submission s: it processed an event or
   moved the submission on *)
Continued(s) == Stepped(s) \/ subs'[s].pc # subs[s].pc

(* C33: a continuation of a submission made on thread A leaves the messages
   and the updatedAt of every other thread as they were. *)
C33_OtherThreadsUntouched ==
    [][\A s \in Subs :
          Continued(s)
              => \A b \in DOMAIN threads \ {subs[s].threadId} :
                    /\ b \in DOMAIN threads'
                    /\ threads'[b].messages = threads[b].messages
                    /\ threads'[b].updatedAt = threads[b].updatedAt]_vars

(* message m of the state before the step is in list after in the state
   after it, with the same id, content, stop_reason and usage, its blocks
   holding what they held *)
Kept(m, after) ==
    \E j \in 1..Len(after) :
        /\ after[j].id = m.id /\ after[j].role = m.role
        /\ after[j].content = m.content
        /\ after[j].stop_reason = m.stop_reason
        /\ after[j].usage = m.usage
        /\ \A k \in 1..Len(m.content) :
              subs'[m.content[k][1]].objs[m.content[k][2]] = Deref(m.content[k])

Finished(m) == m.role = "assistant" /\ m.stop_reason # NoReason

(* C34: an assistant message with a stop_reason that is in a thread's
   messages stays there unchanged as long as the thread exists, and one that
   is in the store's messages stays there unchanged as long as the selection
   is the same. *)
C34_FinishedMessageStays ==
    [][/\ \A t \in DOMAIN threads \cap DOMAIN threads' :
             \A i \in 1..Len(threads[t].messages) :
                 Finished(threads[t].messages[i])
                     => Kept(threads[t].messages[i], threads'[t].messages)
       /\ selectedThreadId' = selectedThreadId
             => \A i \in 1..Len(messages) :
                   Finished(messages[i]) => Kept(messages[i], messages')]_vars

(* C35: the request body of a submission ends with the submission's user
   message, holds no assistant message that had no stop_reason when the body
   was built, and one request was issued for it. *)
C35_BodyIsCommittedHistory ==
    \A s \in Subs :
        LET body == subs[s].body
        IN  /\ subs[s].requests = 1
            /\ Last(body).role = "user" /\ Last(body).sub = s
            /\ \A i \in 1..Len(body) :
                  body[i].role = "assistant" => body[i].stop_reason # NoReason

(* C36: in a state whose messageInput is empty or holds only spaces, no
   call of submitMessage changes anything: not the messages, the threads and
   their controllers, the selection, the input, nor any submission. *)
C36_BlankSubmitIsNoOp ==
    (\A i \in 1..Len(messageInput) : messageInput[i] = " ")
        => ~ENABLED (submitMessage /\ vars' # vars)

(* the input is whitespace only while a submission is in flight with its
   controller installed, and a call of submitMessage is possible *)
C36_Witness ==
    /\ messageInput = <<" ">>
    /\ ENABLED submitMessage
    /\ \E s \in Subs :
          /\ ~Settled(s) /\ ~subs[s].aborted
          /\ threads[subs[s].threadId].abortController = s

(* the threads that were created and have been deleted: ids are handed out
   in order and never twice *)
Deleted == (1..nthreads) \ DOMAIN threads

(* C37: a deleted thread never comes back into threads, and once the thread
   of a submission is deleted no list of the store (the visible messages or
   any thread's history) holds a message of that submission, whatever
   continuation of it runs afterwards. *)
C37_DeletedThreadStaysGone ==
    [][/\ Deleted \subseteq Deleted'
       /\ \A s \in 1..Len(subs') :
             subs'[s].threadId \in Deleted'
                 => /\ ~Holds(messages', s)
                    /\ \A b \in DOMAIN threads' : ~Holds(threads'[b].messages, s)]_vars

(* a submission was in flight when its thread was deleted, another thread is
   left and selected, and the submission has run to its end since *)
C37_Witness ==
    \E s \in Subs :
        /\ subs[s].threadId \in Deleted
        /\ subs[s].aborted /\ Settled(s)
        /\ selectedThreadId \in DOMAIN threads

-----------------------------------------------------------------------------
(* What the properties of part_000 read *)

(* the assistant messages that call c appended, as they are in a list *)
EarlyOf(list, c) == SelectSeq(list, LAMBDA m : m.call = c /\ m.role = "assistant")

EarlyCalls == 1..Len(early.calls)

EarlySettled(st) == st.calls # <<>> /\ \A c \in 1..Len(st.calls) : st.calls[c].pc = "done"

RECURSIVE Flat(_)
Flat(texts) == IF texts = <<>> THEN <<>> ELSE Head(texts) \o Flat(Tail(texts))

(* the thinking texts the stream delivered, one per content_block_start of a
   thinking block, each the thinking_delta payloads that carry its index *)
SegmentsOf(trace) ==
    LET starts == SelectSeq(trace, LAMBDA e : e.type = "content_block_start" /\ e.block = "thinking")
    IN  [j \in 1..Len(starts) |->
            LET deltas == SelectSeq(trace, LAMBDA e :
                              /\ e.type = "content_block_delta"
                              /\ e.delta = "thinking_delta"
                              /\ e.index = starts[j].index)
            IN  Flat([i \in 1..Len(deltas) |-> deltas[i].payload])]

(* the thinking texts of a message of the history, in the order of its content *)
ThinkingOf(m) ==
    LET blocks == [i \in 1..Len(m.content) |->
                      early.calls[m.content[i][1]].objs[m.content[i][2]]]
        thinking == SelectSeq(blocks, LAMBDA b : b.type = "thinking")
    IN  [i \in 1..Len(thinking) |-> thinking[i].thinking]

(* C38: in part_000, a step that settles the last call in flight leaves
   isStreaming false and streamingMessage null, however the stream went; a
   step that receives message_stop appends one assistant message of the call
   to the history, and no other step of the call, a failure included, changes
   the assistant messages of the call in the history. *)
C38_SettledLeavesStreamingState ==
    [][\A c \in EarlyCalls :
          /\ (early.calls[c].pc # "done" /\ EarlySettled(early'))
                => ~early'.isStreaming /\ early'.streamingMessage.isNull
          /\ early'.calls[c].stops = early.calls[c].stops + 1
                => /\ Len(early'.messages) = Len(early.messages) + 1
                   /\ SubSeq(early'.messages, 1, Len(early.messages)) = early.messages
                   /\ Last(early'.messages).role = "assistant"
                   /\ Last(early'.messages).call = c
          /\ (early'.calls[c] # early.calls[c] /\ early'.calls[c].stops = early.calls[c].stops)
                => EarlyOf(early'.messages, c) = EarlyOf(early.messages, c)]_vars

(* C39: in part_000, the thinking segments of a message appended to the
   history are, in order, the segments the stream started, each holding
   exactly the thinking_delta payloads received for it. *)
C39_ThinkingSegmentsSeparate ==
    \A i \in 1..Len(early.messages) :
        early.messages[i].role = "assistant"
            => ThinkingOf(early.messages[i]) = SegmentsOf(early.calls[early.messages[i].call].trace)

(* C40: when a POST asks for 'thinking', the budget handed to
   messages.create is floor(min(0.8 * max_tokens, 10000)): an integer that is
   at least 0, at most 10000 and less than max_tokens, for every integer
   max_tokens >= 1; when it does not, no thinking argument is sent. *)
C40_ThinkingBudget ==
    proxy.pc = "create" =>
        LET n == proxy.max_tokens
            b == proxy.thinking.budget_tokens
        IN  IF "thinking" \in proxy.betaFeatures
            THEN /\ proxy.thinking.type = "enabled"
                 /\ b \in Nat
                 /\ b <= 10000
                 /\ b < n
                 /\ 10 * b <= 8 * n
                 /\ b = 10000 \/ 8 * n < 10 * (b + 1)
            ELSE proxy.thinking = NoThinking

(* thinking was asked for with a max_tokens whose 80% is above the limit *)
C40_Witness ==
    /\ proxy.pc = "create"
    /\ "thinking" \in proxy.betaFeatures
    /\ 8 * proxy.max_tokens > 100000
    /\ proxy.thinking.budget_tokens = 10000

=============================================================================
